---- MODULE Spec2Model ----
(***************************************************************************)
(* Session engine of the honeypot backend (src/main.py): the in-memory     *)
(* session_store, the /honeypot/message handler chat_handler, the          *)
(* classifier detect_scam, the extractor extract_and_update_intelligence,  *)
(* the reply generator generate_agent_reply and the background task        *)
(* send_final_callback.                                                    *)
(*                                                                         *)
(* chat_handler is an `async def` without a single await in its body, so  *)
(* one invocation runs on the event loop from its first to its last line   *)
(* without another handler in between: it is one action.  What interleaves *)
(* with it are other invocations of the handler, the sending of a          *)
(* response (Starlette sends the response and only then runs the           *)
(* response's background tasks) and the background tasks themselves.       *)
(*                                                                         *)
(* A message text is a sequence of whitespace-free tokens (the words of    *)
(* the text, joined by single blanks).  None of the four patterns of       *)
(* REGEX_PATTERNS matches across a blank for the tokens used here, and no  *)
(* keyword with a blank in it ("credit card", "debit card") is a substring *)
(* of two of these tokens joined by a blank, so re.findall on a text is    *)
(* the concatenation of re.findall on its tokens and `k in text.lower()'   *)
(* holds iff k is in the lower-cased form of one of its tokens.            *)
(*                                                                         *)
(* The timestamp field of a history entry is left out: nothing reads it.   *)
(***************************************************************************)
EXTENDS Integers, Sequences, FiniteSets, TLC

VARIABLES
    now,            \* datetime.utcnow(), in seconds
    LLM_API_KEY,    \* whether os.getenv("LLM_API_KEY") is set (fixed at start)
    session_store,  \* sessionId -> reference to a session dict, or NoSession
    heap,           \* the session dicts, by reference
    tasks,          \* background tasks added by handlers and not yet run
    response,       \* what the most recent handler invocation returned or raised
    posted,         \* the callbacks send_final_callback has attempted, in order
    llm_up,         \* whether calls of the LLM endpoint succeed (the same all run long)
    accepted,       \* number of messages that passed authentication so far
    resets          \* sessionId -> number of "timed out. Resetting." log lines so far

vars == <<now, LLM_API_KEY, session_store, heap, tasks, response, posted, llm_up,
          accepted, resets>>

----------------------------------------------------------------------------
(* Configuration, src/main.py lines 16-32 and 97-109 *)

HONEYPOT_API_KEY == "YOUR_SECRET_API_KEY"

CALLBACK_MESSAGE_THRESHOLD == 10

SESSION_TIMEOUT_SECONDS == 1800

KEYWORDS_SCAM ==
    << "urgent", "blocked", "verify", "kyc", "upi", "pay", "bank", "account",
       "suspended", "expire", "refund", "prize", "lottery", "password", "otp",
       "click", "link", "credit card", "debit card", "pin", "cvv", "police", "cbi",
       "arrest", "customs", "fedex" >>

NEUTRAL_REPLY == << "Who is this?" >>

NO_KEY_REPLY == << "I am confused, please explain clearly." >>

LLM_ERROR_REPLY == << "Beta, I cannot hear you properly. Please type again?" >>

\* data['choices'][0]['message']['content'].strip(): whatever the model wrote.
LLM_REPLY == << "<llm reply>" >>

----------------------------------------------------------------------------
(* Bounds of the model *)

\* Messages accepted in one run.
MaxTurns == 6

\* Latest clock value.
MaxNow == 3601

\* Messages accepted in one run of SpecIntel.
IntelTurns == 3

\* Messages accepted in one run of SpecReply.
ReplyTurns == 6

\* Messages accepted in one run of SpecTwo.
TwoTurns == 3

\* Messages accepted in one run of SpecReset.
ResetTurns == 10

SessionIds == {"s1", "s2"}

NoSession == 0

\* How far the clock moves between two events: the gap that just does not
\* expire a session and the first one that does.
Gaps == {SESSION_TIMEOUT_SECONDS, SESSION_TIMEOUT_SECONDS + 1}

Keys == {HONEYPOT_API_KEY, "wrong key"}

----------------------------------------------------------------------------
(* Texts *)

Tokens == {"hello", "9876543210", "123456789", "john@upi", "John@UPI",
           "http://bit.ly/x", "KYC", "pay"}

\* re.findall(REGEX_PATTERNS[key], tok) for one token.
token_findall(key, tok) ==
    CASE key = "upiIds" /\ tok \in {"john@upi", "John@UPI"} -> << tok >>
      [] key = "phoneNumbers" /\ tok = "9876543210" -> << tok >>
      [] key = "bankAccounts" /\ tok \in {"9876543210", "123456789"} -> << tok >>
      [] key = "phishingLinks" /\ tok = "http://bit.ly/x" -> << tok >>
      [] OTHER -> << >>

\* tok.lower()
token_lower(tok) ==
    CASE tok = "KYC" -> "kyc"
      [] tok = "John@UPI" -> "john@upi"
      [] OTHER -> tok

\* k in low, for a keyword k and a lower-cased token low.
keyword_in(k, low) ==
    \/ k = "kyc" /\ low = "kyc"
    \/ k = "upi" /\ low = "john@upi"
    \/ k = "pay" /\ low = "pay"

RECURSIVE re_findall(_, _)
re_findall(key, text) ==
    IF text = << >> THEN << >>
    ELSE token_findall(key, Head(text)) \o re_findall(key, Tail(text))

\* re.search(pattern, text) is not None
re_search(key, text) == re_findall(key, text) # << >>

\* k in text.lower()
keyword_found(k, text) ==
    \E i \in 1..Len(text) : keyword_in(k, token_lower(text[i]))


\* The texts of Spec: one that is no scam by detect_scam (its only indicators
\* are a phone number and a bare account number) and one that is (a keyword
\* and a payment identifier that occurs twice).
MainTexts == { << "hello", "9876543210" >>, << "KYC", "john@upi", "john@upi" >> }

\* The text of MainTexts that the classifier flags.
ScamTexts == { << "KYC", "john@upi", "john@upi" >> }

\* The texts of SpecIntel: between them they hit every category, repeat a
\* value within a text and across texts, differ in case only, and meet the
\* keywords in an order that is not the order of KEYWORDS_SCAM.
IntelTexts ==
    { << "hello", "9876543210" >>,
      << "123456789", "9876543210" >>,
      << "john@upi", "john@upi" >>,
      << "John@UPI", "KYC" >>,
      << "pay", "http://bit.ly/x" >>,
      << "KYC", "pay", "john@upi" >> }

\* The texts the extractor is probed with: those of IntelTexts and every
\* text of one token.
ProbeTexts == IntelTexts \cup { << a >> : a \in Tokens }

----------------------------------------------------------------------------
(* detect_scam, src/main.py lines 111-117 *)

\* Faulty variant: a phone number or an account number counts as well.
detect_scam_any_indicator(text) ==
    \/ \E i \in 1..Len(KEYWORDS_SCAM) : keyword_found(KEYWORDS_SCAM[i], text)
    \/ \E key \in {"phishingLinks", "upiIds", "phoneNumbers", "bankAccounts"} :
            re_search(key, text)

detect_scam(text) ==
    IF \E i \in 1..Len(KEYWORDS_SCAM) : keyword_found(KEYWORDS_SCAM[i], text)
    THEN TRUE
    ELSE IF re_search("phishingLinks", text) \/ re_search("upiIds", text)
         THEN TRUE
         ELSE FALSE

----------------------------------------------------------------------------
(* extract_and_update_intelligence, src/main.py lines 119-129 *)

\* x in list
contains(list, x) == \E i \in 1..Len(list) : list[i] = x

\* Faulty variant: the value is appended without the membership test.
append_always(list, x) == Append(list, x)

\* Faulty variant: a new value is put in front instead of at the end.
insert_front_if_absent(list, x) == IF contains(list, x) THEN list ELSE << x >> \o list

\* if x not in list: list.append(x)
append_if_absent(list, x) == IF contains(list, x) THEN list ELSE Append(list, x)

\* for x in found: if x not in list: list.append(x)
RECURSIVE append_each(_, _)
append_each(list, found) ==
    IF found = << >> THEN list
    ELSE append_each(append_if_absent(list, Head(found)), Tail(found))

\* [k for k in KEYWORDS_SCAM if k in text.lower()]
found_keywords(text) ==
    LET hit(k) == keyword_found(k, text) IN SelectSeq(KEYWORDS_SCAM, hit)

extract_and_update_intelligence(session_intel, text) ==
    [ bankAccounts |-> append_each(session_intel.bankAccounts, re_findall("bankAccounts", text)),
      upiIds |-> append_each(session_intel.upiIds, re_findall("upiIds", text)),
      phishingLinks |-> append_each(session_intel.phishingLinks, re_findall("phishingLinks", text)),
      phoneNumbers |-> append_each(session_intel.phoneNumbers, re_findall("phoneNumbers", text)),
      suspiciousKeywords |-> append_each(session_intel.suspiciousKeywords, found_keywords(text)) ]

----------------------------------------------------------------------------
(* generate_agent_reply, src/main.py lines 132-179.  llm_ok says whether the
   POST to the LLM endpoint and the reading of its answer went through. *)

\* Faulty variant: a failed call yields no reply text.
generate_agent_reply_empty_on_error(llm_ok) ==
    IF ~LLM_API_KEY THEN NO_KEY_REPLY
    ELSE IF llm_ok THEN LLM_REPLY
    ELSE << >>

generate_agent_reply(llm_ok) ==
    IF ~LLM_API_KEY THEN NO_KEY_REPLY
    ELSE IF llm_ok THEN LLM_REPLY
    ELSE LLM_ERROR_REPLY

----------------------------------------------------------------------------
(* init_new_session_state, src/main.py lines 197-206 *)

empty_intelligence ==
    [ bankAccounts |-> << >>, upiIds |-> << >>, phishingLinks |-> << >>,
      phoneNumbers |-> << >>, suspiciousKeywords |-> << >> ]

init_new_session_state(utcnow) ==
    [ history |-> << >>,
      intelligence |-> empty_intelligence,
      last_active |-> utcnow,
      callback_sent |-> FALSE,
      scam_detected |-> FALSE ]

----------------------------------------------------------------------------
(* The session dicts.  A dict lives as long as session_store or a background
   task refers to it; the slot of a dict nobody refers to is reused. *)

referenced(o, store, ts) ==
    \/ \E s \in SessionIds : store[s] = o
    \/ \E i \in 1..Len(ts) : ts[i].session_data = o

\* What an unreferenced slot holds: nothing can read it.
Unused == init_new_session_state(0)

\* The heap after the dicts nobody refers to are gone.
collect(h, store, ts) ==
    [ o \in 1..Len(h) |-> IF referenced(o, store, ts) THEN h[o] ELSE Unused ]

\* The reference a newly built dict gets.
new_ref(h, store, ts) ==
    IF \E o \in 1..Len(h) : ~referenced(o, store, ts)
    THEN CHOOSE o \in 1..Len(h) :
            /\ ~referenced(o, store, ts)
            /\ \A p \in 1..Len(h) : ~referenced(p, store, ts) => o <= p
    ELSE Len(h) + 1

\* h with the dict d stored under reference o.
put(h, o, d) == IF o = Len(h) + 1 THEN Append(h, d) ELSE [h EXCEPT ![o] = d]

\* session_store[sid], for a sid that is in the store.
session_of(sid) == heap[session_store[sid]]

----------------------------------------------------------------------------
(* chat_handler, src/main.py lines 209-273 *)

\* Faulty variant: a session idle for exactly the timeout counts as expired.
session_expired_at_timeout(last_active, utcnow) ==
    utcnow - last_active >= SESSION_TIMEOUT_SECONDS

\* (now - last_active).total_seconds() > SESSION_TIMEOUT_SECONDS
session_expired(last_active, utcnow) == utcnow - last_active > SESSION_TIMEOUT_SECONDS

\* Faulty variant: a session in the store is never expired.
needs_new_session_no_expiry(sid) == session_store[sid] = NoSession

\* Whether the handler builds a new dict for sid (lines 223-229).
needs_new_session(sid) ==
    IF session_store[sid] # NoSession
    THEN session_expired(session_of(sid).last_active, now)
    ELSE TRUE

\* Faulty variant: the flag is assigned the classification of this message.
update_scam_detected_overwrite(scam_detected, is_scam) == is_scam

\* if is_scam: session["scam_detected"] = True
update_scam_detected(scam_detected, is_scam) == IF is_scam THEN TRUE ELSE scam_detected

\* Faulty variant: the agent is activated by the flag alone.
should_activate_agent_flag_only(session) == session.scam_detected

\* Faulty variant: one message in the history is not yet enough.
should_activate_agent_after_two(session) ==
    session.scam_detected \/ Len(session.history) > 2

\* should_activate_agent = session["scam_detected"] or len(session["history"]) > 0
should_activate_agent(session) == session.scam_detected \/ Len(session.history) > 0

\* Faulty variant: the agent's entry is not appended.
append_turn_scammer_only(history, incoming_text, reply_text) ==
    Append(history, [sender |-> "scammer", text |-> incoming_text])

\* The two appends to session["history"] (lines 252-253 and 265-266).
append_turn(history, incoming_text, reply_text) ==
    Append(Append(history, [sender |-> "scammer", text |-> incoming_text]),
           [sender |-> "agent", text |-> reply_text])

\* Faulty variant: the trigger does not look at scam_detected.
callback_trigger_without_flag(session) ==
    /\ Len(session.history) >= CALLBACK_MESSAGE_THRESHOLD
    /\ ~session.callback_sent

\* Faulty variant: the trigger does not look at callback_sent.
callback_trigger_ignoring_sent(session) ==
    /\ session.scam_detected
    /\ Len(session.history) >= CALLBACK_MESSAGE_THRESHOLD

\* Faulty variant: the history has to be longer than the threshold.
callback_trigger_above_threshold(session) ==
    /\ session.scam_detected
    /\ Len(session.history) > CALLBACK_MESSAGE_THRESHOLD
    /\ ~session.callback_sent

\* The condition of the callback trigger (lines 256-258).
callback_trigger(session) ==
    /\ session.scam_detected
    /\ Len(session.history) >= CALLBACK_MESSAGE_THRESHOLD
    /\ ~session.callback_sent

\* Faulty variant: callback_sent is not set by the handler.
callback_sent_never_set(callback_sent, triggered) == callback_sent

\* Faulty variant: callback_sent is overwritten with this turn's trigger.
callback_sent_overwritten(callback_sent, triggered) == triggered

\* session["callback_sent"] after the trigger was evaluated (line 261).
callback_sent_after(callback_sent, triggered) == IF triggered THEN TRUE ELSE callback_sent

\* Lines 232-266 on the resolved session dict: the dict as the handler leaves
\* it, the reply, and whether send_final_callback was added as a task.
process_message(resolved, incoming_text, utcnow, llm_ok) ==
    LET touched == [resolved EXCEPT !.last_active = utcnow]
        is_scam == detect_scam(incoming_text)
        flagged == [touched EXCEPT !.scam_detected = update_scam_detected(@, is_scam)]
        extracted == [flagged EXCEPT
                        !.intelligence = extract_and_update_intelligence(@, incoming_text)]
        activate == should_activate_agent(extracted)
        reply_text == IF activate THEN generate_agent_reply(llm_ok) ELSE NEUTRAL_REPLY
        replied == [extracted EXCEPT
                        !.history = append_turn(@, incoming_text, reply_text)]
        triggered == activate /\ callback_trigger(replied)
    IN  [ session |-> [replied EXCEPT
                        !.callback_sent = callback_sent_after(@, triggered)],
          activated |-> activate,
          reply |-> reply_text,
          scheduled |-> triggered ]

\* Faulty variant: the task does not wait for the response, it may run as
\* soon as it is added.
add_task_not_waiting(ts, sid, ref) ==
    Append(ts, [sid |-> sid, session_data |-> ref, responded |-> TRUE])

\* The tasks after background_tasks.add_task(send_final_callback, sid, session):
\* the task holds the session dict itself, and waits for the response to be sent.
add_task(ts, sid, ref) ==
    Append(ts, [sid |-> sid, session_data |-> ref, responded |-> FALSE])

\* Faulty variant: the key is checked after the session was resolved, so a
\* rejected request has created, reset or touched the session of sid.
reject_after_resolving(sid) ==
    LET fresh == needs_new_session(sid)
        ref == IF fresh THEN new_ref(heap, session_store, tasks) ELSE session_store[sid]
        resolved == IF fresh THEN init_new_session_state(now) ELSE session_of(sid)
        store1 == [session_store EXCEPT ![sid] = ref]
    IN  /\ response' = [status_code |-> 401, detail |-> "Invalid or Missing API Key"]
        /\ session_store' = store1
        /\ heap' = collect(put(heap, ref, [resolved EXCEPT !.last_active = now]),
                            store1, tasks)
        /\ UNCHANGED <<now, LLM_API_KEY, tasks, posted, llm_up, accepted, resets>>

\* raise HTTPException(status_code=401, ...), the first statement of the
\* handler (lines 215-217): nothing ran before it.
reject(sid) ==
    /\ response' = [status_code |-> 401, detail |-> "Invalid or Missing API Key"]
    /\ UNCHANGED <<now, LLM_API_KEY, session_store, heap, tasks, posted, llm_up, accepted,
                   resets>>

\* Faulty variant: storing the session of sid also drops every other
\* session that has timed out.
store_session_and_sweep(store, sid, ref) ==
    [ s \in SessionIds |->
        IF s = sid THEN ref
        ELSE IF store[s] # NoSession /\ session_expired(heap[store[s]].last_active, now)
             THEN NoSession
             ELSE store[s] ]

\* session_store[sid] = <the dict under ref> (lines 227, 229; a kept session
\* stays where it is): no other key of the store is read or written.
store_session(store, sid, ref) == [store EXCEPT ![sid] = ref]

chat_handler(sid, incoming_text, x_api_key, maxTurns) ==
    IF x_api_key # HONEYPOT_API_KEY
    THEN reject(sid)
    ELSE LET fresh == needs_new_session(sid)
             ref == IF fresh THEN new_ref(heap, session_store, tasks)
                    ELSE session_store[sid]
             resolved == IF fresh THEN init_new_session_state(now) ELSE session_of(sid)
             done == process_message(resolved, incoming_text, now, llm_up)
             store1 == store_session(session_store, sid, ref)
             tasks1 == IF done.scheduled THEN add_task(tasks, sid, ref) ELSE tasks
         IN  /\ accepted < maxTurns
             /\ accepted' = accepted + 1
             /\ resets' = IF fresh /\ session_store[sid] # NoSession
                           THEN [resets EXCEPT ![sid] = @ + 1]
                           ELSE resets
             /\ session_store' = store1
             /\ tasks' = tasks1
             /\ heap' = collect(put(heap, ref, done.session), store1, tasks1)
             /\ response' = [ status_code |-> 200,
                              status |-> "success",
                              reply |-> done.reply,
                              scam_detected |-> done.session.scam_detected,
                              intelligence |-> done.session.intelligence ]
             /\ UNCHANGED <<now, LLM_API_KEY, posted, llm_up>>

----------------------------------------------------------------------------
(* The response of a request that added a task is sent: its background tasks
   may run from now on (BackgroundTasks run after the response). *)

send_response(i) ==
    /\ i \in 1..Len(tasks)
    /\ ~tasks[i].responded
    /\ tasks' = [tasks EXCEPT ![i].responded = TRUE]
    /\ UNCHANGED <<now, LLM_API_KEY, session_store, heap, response, posted, llm_up, accepted, resets>>

----------------------------------------------------------------------------
(* send_final_callback, src/main.py lines 182-195.  ok says whether
   requests.post returned; when it raised, the error is logged and that is all. *)

callback_payload(session_id, session_data) ==
    [ sessionId |-> session_id,
      scamDetected |-> TRUE,
      totalMessagesExchanged |-> Len(session_data.history),
      extractedIntelligence |-> session_data.intelligence ]

\* ts without its i-th element.
without(ts, i) == SubSeq(ts, 1, i - 1) \o SubSeq(ts, i + 1, Len(ts))

\* Faulty variant: a failed delivery clears callback_sent, to have the report retried.
session_after_callback_rollback(session_data, ok) ==
    IF ok THEN session_data ELSE [session_data EXCEPT !.callback_sent = FALSE]

\* The session dict after send_final_callback ran on it: the function reads
\* it, and its except branch logs and does nothing else (lines 190-195).
session_after_callback(session_data, ok) == session_data

send_final_callback(i, ok) ==
    /\ i \in 1..Len(tasks)
    /\ tasks[i].responded
    /\ posted' = Append(posted,
                    [ payload |-> callback_payload(tasks[i].sid, heap[tasks[i].session_data]),
                      ok |-> ok ])
    /\ tasks' = without(tasks, i)
    /\ heap' = collect([heap EXCEPT ![tasks[i].session_data] = session_after_callback(@, ok)],
                        session_store, without(tasks, i))
    /\ UNCHANGED <<now, LLM_API_KEY, session_store, response, llm_up, accepted, resets>>

----------------------------------------------------------------------------
(* Time passes. *)

tick(d, maxNow) ==
    /\ now + d <= maxNow
    /\ now' = now + d
    /\ UNCHANGED <<LLM_API_KEY, session_store, heap, tasks, response, posted, llm_up, accepted, resets>>

----------------------------------------------------------------------------

\* The process starts with an empty session_store, in one of three
\* surroundings: no LLM key, a key and an endpoint that answers, a key and an
\* endpoint that fails.
Init ==
    /\ now = 0
    /\ LLM_API_KEY \in BOOLEAN
    /\ session_store = [s \in SessionIds |-> NoSession]
    /\ heap = << >>
    /\ tasks = << >>
    /\ response = [status_code |-> 0]
    /\ posted = << >>
    /\ llm_up \in BOOLEAN
    /\ LLM_API_KEY \/ llm_up
    /\ accepted = 0
    /\ resets = [s \in SessionIds |-> 0]

Message(sids, texts, keys, maxTurns) ==
    \E sid \in sids, text \in texts, key \in keys :
        chat_handler(sid, text, key, maxTurns)

Respond == \E i \in 1..Len(tasks) : send_response(i)

Callback == \E i \in 1..Len(tasks), ok \in BOOLEAN : send_final_callback(i, ok)

Tick(maxNow) == \E d \in Gaps : tick(d, maxNow)

Next ==
    \/ Message({"s1"}, MainTexts, Keys, MaxTurns)
    \/ Respond
    \/ Callback
    \/ Tick(MaxNow)

Spec == Init /\ [][Next]_vars

\* The extractor at work: every message is authenticated, the texts are
\* those of IntelTexts, and the clock goes as far as one expiry.
\* No session gets to CALLBACK_MESSAGE_THRESHOLD entries within IntelTurns
\* messages, so no task is ever added and nothing is there to respond to or
\* to call back.
NextIntel ==
    \/ Message({"s1"}, IntelTexts, {HONEYPOT_API_KEY}, IntelTurns)
    \/ Tick(SESSION_TIMEOUT_SECONDS + 1)

SpecIntel == Init /\ [][NextIntel]_vars

\* The outcome of requests.post is the endpoint's, call by call: between
\* two messages it may start or stop answering.  Without LLM_API_KEY the
\* endpoint is never called.
llm_flip ==
    /\ LLM_API_KEY
    /\ llm_up' = ~llm_up
    /\ UNCHANGED <<now, LLM_API_KEY, session_store, heap, tasks, response, posted, accepted,
                   resets>>

\* The generator at work: one session is sent the scam text while the
\* endpoint comes and goes; the clock stands still.
NextReply ==
    \/ Message({"s1"}, ScamTexts, {HONEYPOT_API_KEY}, ReplyTurns)
    \/ Respond
    \/ Callback
    \/ llm_flip

SpecReply == Init /\ [][NextReply]_vars

\* Two sessions side by side.  No session gets to
\* CALLBACK_MESSAGE_THRESHOLD entries within TwoTurns messages.
NextTwo ==
    \/ Message(SessionIds, MainTexts, {HONEYPOT_API_KEY}, TwoTurns)
    \/ Tick(MaxNow)

SpecTwo == Init /\ [][NextTwo]_vars

\* One session long enough to be reported, to time out and to be reported
\* again: every message is the scam text.
NextReset ==
    \/ Message({"s1"}, ScamTexts, {HONEYPOT_API_KEY}, ResetTurns)
    \/ Respond
    \/ Callback
    \/ Tick(MaxNow)

SpecReset == Init /\ [][NextReset]_vars

----------------------------------------------------------------------------
(* Vocabulary of the properties *)

\* sid has a session in the store.
known(sid) == session_store[sid] # NoSession

\* The session of sid after the step.
session_after(sid) == heap'[session_store'[sid]]

\* The step is a message for sid that passed authentication.
turn_of(sid) ==
    /\ accepted' = accepted + 1
    /\ session_store'[sid] # NoSession
    /\ \/ session_store'[sid] # session_store[sid]
       \/ session_after(sid) # session_of(sid)

\* The step is a message for a session of sid that exists and is kept
\* (the same dict before and after).
turn_in_session(sid) ==
    /\ known(sid)
    /\ session_store'[sid] = session_store[sid]
    /\ turn_of(sid)

\* The step is a message for sid that meets a session older than the timeout.
turn_after_timeout(sid) ==
    /\ known(sid)
    /\ now - session_of(sid).last_active > SESSION_TIMEOUT_SECONDS
    /\ turn_of(sid)

\* The step adds send_final_callback as a task for sid.
schedules(sid) ==
    /\ Len(tasks') = Len(tasks) + 1
    /\ tasks'[Len(tasks')].sid = sid

\* scamDetected and len(history) >= threshold.
qualifies(session) ==
    session.scam_detected /\ Len(session.history) >= CALLBACK_MESSAGE_THRESHOLD

\* The text of the n-th message the session accepted.
message(session, n) == session.history[2 * n - 1].text

\* The number of messages the session accepted.
messages(session) == Len(session.history) \div 2

no_duplicates(list) ==
    \A i \in 1..Len(list), j \in 1..Len(list) : list[i] = list[j] => i = j

is_prefix(a, b) == Len(a) <= Len(b) /\ SubSeq(b, 1, Len(a)) = a

Categories == {"bankAccounts", "upiIds", "phishingLinks", "phoneNumbers", "suspiciousKeywords"}

----------------------------------------------------------------------------
(* C1: at-most-once report.  Once a turn has left a session with
   scam_detected set and len(history) >= CALLBACK_MESSAGE_THRESHOLD (which is
   the turn that schedules the report, see C2), no later turn of the same
   session incarnation schedules a report again, although every later turn
   qualifies as well. *)
C1_AtMostOnceReport ==
    [][ \A sid \in SessionIds :
            (turn_in_session(sid) /\ qualifies(session_of(sid)))
                => (~schedules(sid) /\ qualifies(session_after(sid))) ]_vars

\* A session that went on for a turn after the one that scheduled its report.
C1_Witness ==
    /\ known("s1")
    /\ qualifies(session_of("s1"))
    /\ messages(session_of("s1")) = 6
    /\ \A n \in 1..6 : detect_scam(message(session_of("s1"), n))
    /\ Len(tasks) + Len(posted) = 1

(* C2: the report is scheduled on the first turn that leaves the session
   with scam_detected set and len(history) >= CALLBACK_MESSAGE_THRESHOLD, and
   on no turn that leaves it short of either: with the flag set from the
   first message that is the fifth message, with a session flagged late it is
   the flagging message. *)
C2_TriggerOnFirstQualifyingTurn ==
    [][ \A sid \in SessionIds :
            turn_of(sid) =>
                LET earlier == turn_in_session(sid) /\ qualifies(session_of(sid))
                IN  schedules(sid) <=> (qualifies(session_after(sid)) /\ ~earlier) ]_vars

\* Five messages that are no scam, then one that is: the report is scheduled
\* with the sixth, on a history of 12.
C2_Witness ==
    /\ known("s1")
    /\ messages(session_of("s1")) = 6
    /\ \A n \in 1..5 : ~detect_scam(message(session_of("s1"), n))
    /\ detect_scam(message(session_of("s1"), 6))
    /\ \E i \in 1..Len(tasks) : tasks[i].session_data = session_store["s1"]

(* C3: sticky detection.  A session's scam_detected, once true, is true
   after every step in which the session is not replaced after a timeout:
   a message that detect_scam classifies as no scam leaves it set. *)
C3_StickyDetection ==
    [][ \A sid \in SessionIds :
            (known(sid) /\ session_of(sid).scam_detected)
                => \/ session_after(sid).scam_detected
                   \/ turn_after_timeout(sid) ]_vars

\* A flagged session whose latest message was no scam.
C3_Witness ==
    /\ known("s1")
    /\ session_of("s1").scam_detected
    /\ messages(session_of("s1")) >= 2
    /\ ~detect_scam(message(session_of("s1"), messages(session_of("s1"))))

(* C4 as stated: after every processed message len(history) of the addressed
   session is its value before the message plus 2 (0 before the first
   message of an identifier).  A message that meets an expired session
   refutes it: the history goes from 2k to 2. *)
C4_Original ==
    /\ [](\A sid \in SessionIds : known(sid) => Len(session_of(sid).history) % 2 = 0)
    /\ [][ \A sid \in SessionIds :
            turn_of(sid) =>
                Len(session_after(sid).history) =
                    (IF known(sid) THEN Len(session_of(sid).history) ELSE 0) + 2 ]_vars

(* C4, amended: after every processed message len(history) is 2 more than
   the history of the session the message is resolved against (the value
   before the message when the session is kept, 0 when it is created or
   re-created after a timeout), and len(history) is even in every reachable
   state, whether or not the reply generator was activated. *)
C4_PairInvariant ==
    /\ [](\A sid \in SessionIds : known(sid) => Len(session_of(sid).history) % 2 = 0)
    /\ [][ \A sid \in SessionIds :
            turn_of(sid) =>
                Len(session_after(sid).history) =
                    (IF turn_in_session(sid) THEN Len(session_of(sid).history) ELSE 0) + 2 ]_vars

\* Three messages accepted, the third one after a timeout and answered with
\* the neutral reply: the history went 2, 4, 2.
C4_Witness ==
    /\ known("s1")
    /\ accepted = 3
    /\ Len(session_of("s1").history) = 2
    /\ response.status_code = 200
    /\ response.reply = NEUTRAL_REPLY

\* What the first message of a brand-new session leaves behind.
handled_as_first(sid) ==
    LET s == session_after(sid)
        text == s.history[Len(s.history) - 1].text
    IN  /\ Len(s.history) = 2
        /\ s.history[1] = [sender |-> "scammer", text |-> text]
        /\ s.history[2] = [sender |-> "agent",
                           text |-> IF detect_scam(text) THEN generate_agent_reply(llm_up)
                                    ELSE NEUTRAL_REPLY]
        /\ s.intelligence = extract_and_update_intelligence(empty_intelligence, text)
        /\ s.scam_detected = detect_scam(text)
        /\ s.callback_sent = FALSE
        /\ s.last_active = now
        /\ ~schedules(sid)

(* C5: timeout reset.  A message that arrives more than
   SESSION_TIMEOUT_SECONDS after the session's last_active leaves a session
   that holds this message's pair, the indicators of this message alone, the
   classification of this message alone and callback_sent false: what the
   first message of an unknown identifier leaves. *)
C5_TimeoutReset ==
    [][ \A sid \in SessionIds :
            /\ turn_after_timeout(sid) => handled_as_first(sid)
            /\ (turn_of(sid) /\ ~known(sid)) => handled_as_first(sid) ]_vars

\* A session whose report was delivered, and after a timeout a message
\* that is no scam: nothing of the flagged session is left.
C5_Witness ==
    /\ known("s1")
    /\ posted # << >>
    /\ accepted = 6
    /\ messages(session_of("s1")) = 1
    /\ ~session_of("s1").scam_detected
    /\ ~session_of("s1").callback_sent
    /\ session_of("s1").intelligence.upiIds = << >>

(* C6: idempotent extraction.  For the intelligence of every session and
   every text, the extractor applied a second time with the same text
   changes nothing, and no category holds a value twice after it. *)
C6_IdempotentExtraction ==
    \A sid \in SessionIds :
        known(sid) =>
            \A text \in ProbeTexts :
                LET once == extract_and_update_intelligence(session_of(sid).intelligence, text)
                    twice == extract_and_update_intelligence(once, text)
                IN  /\ twice = once
                    /\ \A c \in Categories : no_duplicates(once[c])

\* The same text, with the same payment identifier in it twice, accepted
\* twice: the identifier is there once.
C6_Witness ==
    /\ known("s1")
    /\ messages(session_of("s1")) = 2
    /\ message(session_of("s1"), 1) = << "john@upi", "john@upi" >>
    /\ message(session_of("s1"), 2) = << "john@upi", "john@upi" >>
    /\ session_of("s1").intelligence.upiIds = << "john@upi" >>

(* C7: no category of any session holds a value twice, and as long as the
   session is not replaced after a timeout a category only grows at its end:
   what it held before a step is a prefix of what it holds after. *)
C7_UniqueAppendOnly ==
    /\ [](\A sid \in SessionIds : known(sid) =>
            \A c \in Categories : no_duplicates(session_of(sid).intelligence[c]))
    /\ [][ \A sid \in SessionIds :
            (known(sid) /\ ~turn_after_timeout(sid)) =>
                \A c \in Categories :
                    is_prefix(session_of(sid).intelligence[c],
                              session_after(sid).intelligence[c]) ]_vars

\* Values added behind earlier ones, the keywords in the order they were
\* met and not in the order of KEYWORDS_SCAM.
C7_Witness ==
    /\ known("s1")
    /\ session_of("s1").intelligence.suspiciousKeywords = << "upi", "kyc" >>
    /\ session_of("s1").intelligence.upiIds = << "john@upi", "John@UPI" >>

(* C8: on every turn the reply comes from the reply generator iff, with the
   flag updated for this message, scam_detected is set or the resolved
   session has a history; otherwise it is the neutral reply, and then the
   session is unflagged, has a history of 2 and no report is scheduled. *)
C8_ActivationRule ==
    [][ \A sid \in SessionIds :
            turn_of(sid) =>
                LET s == session_after(sid)
                    before == IF turn_in_session(sid) THEN Len(session_of(sid).history) ELSE 0
                    expected == s.scam_detected \/ before > 0
                IN  /\ response'.reply = IF expected THEN generate_agent_reply(llm_up)
                                         ELSE NEUTRAL_REPLY
                    /\ s.history[Len(s.history)].text = response'.reply
                    /\ ~expected =>
                        /\ ~s.scam_detected
                        /\ Len(s.history) = 2
                        /\ ~schedules(sid) ]_vars

\* A first message that is no scam, answered with the neutral reply.
C8_Witness ==
    /\ known("s1")
    /\ accepted = 1
    /\ ~session_of("s1").scam_detected
    /\ Len(session_of("s1").history) = 2
    /\ response.status_code = 200
    /\ response.reply = NEUTRAL_REPLY
    /\ tasks = << >>

(* C9: no two background tasks hold the same session dict, the dict of every
   task that waits or runs has callback_sent set, and a step that schedules
   a report sets callback_sent in that very step and is taken only on a
   dict whose callback_sent was false. *)
C9_NoSecondAttempt ==
    /\ [](\A i \in 1..Len(tasks) :
            /\ heap[tasks[i].session_data].callback_sent
            /\ \A j \in 1..Len(tasks) :
                    tasks[j].session_data = tasks[i].session_data => i = j)
    /\ [][ \A sid \in SessionIds :
            schedules(sid) =>
                /\ session_after(sid).callback_sent
                /\ tasks'[Len(tasks')].session_data = session_store'[sid]
                /\ ~(turn_in_session(sid) /\ session_of(sid).callback_sent) ]_vars

\* The fifth message scheduled the report; the sixth was handled while the
\* response to the fifth was not yet sent, and scheduled nothing.
C9_Witness ==
    /\ known("s1")
    /\ messages(session_of("s1")) = 6
    /\ \A n \in 1..6 : detect_scam(message(session_of("s1"), n))
    /\ Len(tasks) = 1
    /\ ~tasks[1].responded
    /\ tasks[1].session_data = session_store["s1"]
    /\ posted = << >>

(* C10: a delivery that fails changes no session (callback_sent of the
   session it was for stays set), puts no task back, and a later turn of a
   session whose callback_sent is set keeps it set and schedules nothing. *)
C10_FailedDeliveryNotRetried ==
    /\ [][ (Len(posted') = Len(posted) + 1 /\ ~posted'[Len(posted')].ok) =>
            /\ session_store' = session_store
            /\ \A sid \in SessionIds : known(sid) => session_after(sid) = session_of(sid)
            /\ \E i \in 1..Len(tasks) :
                    /\ tasks' = without(tasks, i)
                    /\ referenced(tasks[i].session_data, session_store', tasks')
                            => heap'[tasks[i].session_data].callback_sent ]_vars
    /\ [][ \A sid \in SessionIds :
            (turn_in_session(sid) /\ session_of(sid).callback_sent) =>
                (session_after(sid).callback_sent /\ ~schedules(sid)) ]_vars

\* The delivery failed on a history of 10, then the session took another
\* message: callback_sent is still set and no task was added.
C10_Witness ==
    /\ known("s1")
    /\ Len(posted) = 1
    /\ ~posted[1].ok
    /\ posted[1].payload.totalMessagesExchanged = 10
    /\ messages(session_of("s1")) = 6
    /\ session_of("s1").callback_sent
    /\ tasks = << >>

\* The session a message for sid is resolved against: the one in the store
\* when it is kept, a new one otherwise.
resolved_for(sid) ==
    IF turn_in_session(sid) THEN session_of(sid) ELSE init_new_session_state(now)

(* C11: a turn that activates the reply generator while LLM_API_KEY is set
   and the call to the endpoint fails is answered with status 200 and the
   one reply LLM_ERROR_REPLY, whatever the endpoint did on earlier turns or
   would do on a second call; the turn is completed as any other: the
   history grows by the scammer's message followed by the agent's entry
   with LLM_ERROR_REPLY as its text, and the report is scheduled on this
   turn iff the session now qualifies and callback_sent was not set. *)
C11_FailedGenerationFallsBack ==
    [][ \A sid \in SessionIds :
            LET before == resolved_for(sid)
                s == session_after(sid)
                n == Len(s.history)
            IN  ( /\ turn_of(sid)
                  /\ LLM_API_KEY
                  /\ ~llm_up
                  /\ s.scam_detected \/ Len(before.history) > 0 )
                =>
                /\ response'.status_code = 200
                /\ response'.status = "success"
                /\ response'.reply = LLM_ERROR_REPLY
                /\ n = Len(before.history) + 2
                /\ is_prefix(before.history, s.history)
                /\ s.history[n - 1].sender = "scammer"
                /\ s.history[n] = [sender |-> "agent", text |-> LLM_ERROR_REPLY]
                /\ schedules(sid) <=> (qualifies(s) /\ ~before.callback_sent)
                /\ s.callback_sent <=> (before.callback_sent \/ qualifies(s)) ]_vars

\* The endpoint answered the fourth message and failed on the fifth: the
\* fifth was answered with the fallback, and its turn scheduled the report.
C11_Witness ==
    /\ known("s1")
    /\ Len(session_of("s1").history) = 10
    /\ session_of("s1").history[8].text = LLM_REPLY
    /\ session_of("s1").history[10].text = LLM_ERROR_REPLY
    /\ response.status_code = 200
    /\ response.reply = LLM_ERROR_REPLY
    /\ Len(tasks) = 1
    /\ tasks[1].session_data = session_store["s1"]

(* C12: a message for a session that exists and has been idle for at most
   SESSION_TIMEOUT_SECONDS (exactly the timeout included) is processed on
   that very session: the store keeps the same dict, nothing of it is reset
   (the history it had is a prefix of the new one, which is longer by the
   turn's pair; intelligence and scam_detected are what the message makes of
   the old values; callback_sent is not cleared), no reset is logged, and
   last_active becomes now.  On every accepted message, kept session or not,
   last_active of its session is the time of that message. *)
C12_TouchWithinTimeout ==
    /\ [][ \A sid \in SessionIds :
            ( /\ known(sid)
              /\ now - session_of(sid).last_active <= SESSION_TIMEOUT_SECONDS
              /\ turn_of(sid) )
            =>
            LET b == session_of(sid)
                s == session_after(sid)
                text == s.history[Len(s.history) - 1].text
            IN  /\ session_store'[sid] = session_store[sid]
                /\ resets' = resets
                /\ Len(s.history) = Len(b.history) + 2
                /\ is_prefix(b.history, s.history)
                /\ s.intelligence = extract_and_update_intelligence(b.intelligence, text)
                /\ s.scam_detected <=> (b.scam_detected \/ detect_scam(text))
                /\ b.callback_sent => s.callback_sent
                /\ s.last_active = now ]_vars
    /\ [][ \A sid \in SessionIds :
            turn_of(sid) => session_after(sid).last_active = now ]_vars

\* Two messages, the second at 3600: the first came at 1800 or later, and
\* the session it made took the second without a reset.
C12_Witness ==
    /\ known("s1")
    /\ accepted = 2
    /\ messages(session_of("s1")) = 2
    /\ session_of("s1").last_active = 2 * SESSION_TIMEOUT_SECONDS
    /\ resets["s1"] = 0

(* C13: scam_detected of a session is set iff some message of the session
   had a keyword of KEYWORDS_SCAM (in any case), a link or a payment
   identifier, that is, iff one of suspiciousKeywords, phishingLinks and
   upiIds of its intelligence is not empty: phone numbers and account
   numbers do not set it.  They are collected all the same: every phone
   number and every account number of every message of the session is in
   the intelligence. *)
C13_ClassifierRule ==
    \A sid \in SessionIds :
        known(sid) =>
            LET s == session_of(sid) IN
            /\ s.scam_detected <=>
                    \/ s.intelligence.suspiciousKeywords # << >>
                    \/ s.intelligence.phishingLinks # << >>
                    \/ s.intelligence.upiIds # << >>
            /\ \A n \in 1..messages(s) :
                    \A key \in {"phoneNumbers", "bankAccounts"} :
                        LET found == re_findall(key, message(s, n)) IN
                        \A i \in 1..Len(found) : contains(s.intelligence[key], found[i])

\* Two messages with a phone number and account numbers and nothing else:
\* the numbers are in the intelligence and scam_detected is not set.
C13_Witness ==
    /\ known("s1")
    /\ messages(session_of("s1")) = 2
    /\ ~session_of("s1").scam_detected
    /\ session_of("s1").intelligence.phoneNumbers = << "9876543210" >>
    /\ session_of("s1").intelligence.bankAccounts = << "9876543210", "123456789" >>
    /\ response.status_code = 200
    /\ ~response.scam_detected

(* C14: the report of a turn is sent only after the response of that turn:
   the step that schedules a report returns status 200 with the task added,
   not yet free to run, and nothing posted; a step that posts a report takes
   a task whose response has been sent; and sending the response posts
   nothing and waits for no delivery. *)
C14_ResponseBeforeReport ==
    /\ [][ \A sid \in SessionIds :
            schedules(sid) =>
                /\ response'.status_code = 200
                /\ ~tasks'[Len(tasks')].responded
                /\ posted' = posted ]_vars
    /\ [][ Len(posted') = Len(posted) + 1 =>
            \E i \in 1..Len(tasks) :
                /\ tasks[i].responded
                /\ tasks' = without(tasks, i) ]_vars
    /\ [][ \A i \in 1..Len(tasks) :
            (Len(tasks') = Len(tasks) /\ ~tasks[i].responded /\ tasks'[i].responded) =>
                posted' = posted ]_vars

\* The response of the triggering turn has been sent and the report has
\* not: the answer did not wait for the delivery.
C14_Witness ==
    /\ Len(tasks) = 1
    /\ tasks[1].responded
    /\ tasks[1].sid = "s1"
    /\ posted = << >>
    /\ response.status_code = 200
    /\ Len(heap[tasks[1].session_data].history) = CALLBACK_MESSAGE_THRESHOLD

(* C15: a request whose key is not HONEYPOT_API_KEY is answered with status
   401 and changes nothing else: the store and every session dict (none
   created, reset or touched, last_active as it was, nothing appended), the
   tasks, the reports posted and the counts of accepted messages and of
   resets are as before.  Conversely a step that changes the store, accepts
   a message or adds a task answers with status 200. *)
C15_UnauthorizedChangesNothing ==
    /\ [][ (response' # response /\ response'.status_code = 401) =>
            UNCHANGED <<session_store, heap, tasks, posted, accepted, resets>> ]_vars
    /\ [][ ( \/ session_store' # session_store
             \/ accepted' # accepted
             \/ Len(tasks') > Len(tasks) )
           => response'.status_code = 200 ]_vars

\* The session of s1 has timed out and a request with a wrong key was the
\* last one answered: the session is still there, as old as it was.
C15_Witness ==
    /\ response.status_code = 401
    /\ known("s1")
    /\ accepted = 1
    /\ now - session_of("s1").last_active > SESSION_TIMEOUT_SECONDS
    /\ messages(session_of("s1")) = 1
    /\ resets["s1"] = 0

(* C16: the neutral reply is given to the first message of a session (new,
   or new again after a timeout) and to no other: a turn answered with
   NEUTRAL_REPLY leaves a history of the one pair, and every message for a
   session that is kept is answered by the reply generator, scam_detected
   set or not; in every session the agent's entry of every message after
   the first is a reply of the generator. *)
C16_NeutralOnFirstMessageOnly ==
    /\ [][ \A sid \in SessionIds :
            turn_of(sid) =>
                LET s == session_after(sid) IN
                /\ response'.reply = NEUTRAL_REPLY =>
                        (Len(s.history) = 2 /\ ~turn_in_session(sid))
                /\ turn_in_session(sid) =>
                        /\ response'.reply = generate_agent_reply(llm_up)
                        /\ s.history[Len(s.history)].text = generate_agent_reply(llm_up) ]_vars
    /\ [] \A sid \in SessionIds :
            known(sid) =>
                \A n \in 2..messages(session_of(sid)) :
                    session_of(sid).history[2 * n].text
                        \in {NO_KEY_REPLY, LLM_ERROR_REPLY, LLM_REPLY}

\* Two messages that are no scam: the first got the neutral reply, the
\* second a reply of the generator, and scam_detected is not set.
C16_Witness ==
    /\ known("s1")
    /\ messages(session_of("s1")) = 2
    /\ ~session_of("s1").scam_detected
    /\ session_of("s1").history[2].text = NEUTRAL_REPLY
    /\ session_of("s1").history[4].text = generate_agent_reply(llm_up)
    /\ response.reply = generate_agent_reply(llm_up)

\* What the task would post if it ran now: send_final_callback builds its
\* payload from the dict the task holds.
pending_payload(hp, task) == callback_payload(task.sid, hp[task.session_data])

(* C17: no step other than its own delivery changes what a scheduled report
   will deliver: as long as the task waits, totalMessagesExchanged and
   extractedIntelligence of its payload stay what they were when the task
   was added, whatever turns or timeout reset the session goes through in
   between.  (Stated for the steps that leave the tasks before them in
   place, which is every step but a delivery.) *)
C17_PayloadFixedAtTrigger ==
    [][ \A i \in 1..Len(tasks) :
            (Len(tasks') >= Len(tasks) /\ tasks'[i].session_data = tasks[i].session_data)
                => pending_payload(heap', tasks'[i]) = pending_payload(heap, tasks[i]) ]_vars

(* C18: a message for one sessionId leaves every other sessionId alone: its
   entry in the store, its session dict (history, intelligence,
   last_active, scam_detected, callback_sent) and its count of resets are
   as before, however long that other session has been idle; and no step
   takes a sessionId out of the store. *)
C18_OtherSessionsUntouched ==
    /\ [][ \A a \in SessionIds :
            turn_of(a) =>
                \A b \in SessionIds \ {a} :
                    /\ session_store'[b] = session_store[b]
                    /\ resets'[b] = resets[b]
                    /\ known(b) => session_after(b) = session_of(b) ]_vars
    /\ [][ \A b \in SessionIds : known(b) => session_store'[b] # NoSession ]_vars

\* s2 was last active at 0; s1 took a message at 1801, when s2 had timed
\* out: s2 is still in the store with its one message, not reset.
C18_Witness ==
    /\ known("s1")
    /\ known("s2")
    /\ now = SESSION_TIMEOUT_SECONDS + 1
    /\ session_of("s2").last_active = 0
    /\ messages(session_of("s2")) = 1
    /\ session_of("s1").last_active = now
    /\ resets["s2"] = 0

(* C19: in every reachable state a session with callback_sent set has
   scam_detected set and at least CALLBACK_MESSAGE_THRESHOLD history
   entries, and so has the session of every task that was scheduled and has
   not run yet; every report posted counts at least that many entries.  No
   report is scheduled for a session that was never flagged, however long
   its history. *)
C19_ReportedImpliesQualified ==
    /\ \A sid \in SessionIds :
            (known(sid) /\ session_of(sid).callback_sent) => qualifies(session_of(sid))
    /\ \A i \in 1..Len(tasks) :
            /\ qualifies(heap[tasks[i].session_data])
            /\ heap[tasks[i].session_data].callback_sent
    /\ \A k \in 1..Len(posted) :
            posted[k].payload.totalMessagesExchanged >= CALLBACK_MESSAGE_THRESHOLD

\* Six messages, none of them a scam: a history of 12, no report scheduled.
C19_Witness ==
    /\ known("s1")
    /\ messages(session_of("s1")) = 6
    /\ ~session_of("s1").scam_detected
    /\ ~session_of("s1").callback_sent
    /\ tasks = << >>
    /\ posted = << >>

\* The reports scheduled so far for sid: those whose task still waits and
\* those that were posted.
reports(sid) ==
    Cardinality({ i \in 1..Len(tasks) : tasks[i].sid = sid })
        + Cardinality({ k \in 1..Len(posted) : posted[k].payload.sessionId = sid })

(* C20: callback_sent of the session of a sessionId goes from set to not set
   only on a message that meets the session timed out (and is logged as a
   reset); and in every reachable state the reports scheduled for a
   sessionId are at most 1 more than the resets of that sessionId. *)
C20_OneReportPerIncarnation ==
    /\ [][ \A sid \in SessionIds :
            ( /\ known(sid)
              /\ session_of(sid).callback_sent
              /\ ~session_after(sid).callback_sent )
            =>
            /\ turn_after_timeout(sid)
            /\ session_store'[sid] # session_store[sid]
            /\ resets'[sid] = resets[sid] + 1 ]_vars
    /\ [] \A sid \in SessionIds : reports(sid) <= 1 + resets[sid]

\* One reset and two reports for s1: the session was reported, timed out,
\* was made anew and got to the threshold again.
C20_Witness ==
    /\ known("s1")
    /\ resets["s1"] = 1
    /\ reports("s1") = 2
    /\ session_of("s1").callback_sent
    /\ Len(session_of("s1").history) = CALLBACK_MESSAGE_THRESHOLD
    /\ accepted = 10

====
